---- MODULE Spec2Model ----
(***************************************************************************)
(* Model of src/app.py: the Streamlit front end of the data-engineering    *)
(* agent.  One action is one run of the script, started by one widget      *)
(* interaction; st.session_state is the state that survives between runs.  *)
(* Response bodies are texts (sequences of symbols) that response.json()   *)
(* and json.loads() decode into Python values.                             *)
(***************************************************************************)
EXTENDS Integers, Sequences, FiniteSets, TLC

(***************************************************************************)
(* Python / JSON values.  A str holds a text: a sequence of symbols, where *)
(* the quote and the backslash are symbols of their own and a run of       *)
(* ordinary letters is one symbol.                                         *)
(***************************************************************************)
None == [t |-> "null"]
PyBool(b) == [t |-> "bool", b |-> b]
PyNum(n) == [t |-> "num", n |-> n]
PyStr(s) == [t |-> "str", s |-> s]
PyList(a) == [t |-> "arr", a |-> a]
PyDict(o) == [t |-> "obj", o |-> o]

EmptyDict == [k \in {} |-> None]

\* dict[k] = v
Put(o, k, v) == [x \in (DOMAIN o) \cup {k} |-> IF x = k THEN v ELSE o[x]]

\* the key of a dict, written as the one-symbol text of its name
Key(name) == <<name>>

\* dict.get(name, default); the caller has made sure d is a dict
Get(d, name, default) == IF Key(name) \in DOMAIN d.o THEN d.o[Key(name)] ELSE default

isinstance_str(v) == v.t = "str"
isinstance_dict(v) == v.t = "obj"

\* Python truthiness: bool(v)
Truthy(v) ==
    CASE v.t = "null" -> FALSE
      [] v.t = "bool" -> v.b
      [] v.t = "num" -> v.n # 0
      [] v.t = "str" -> Len(v.s) > 0
      [] v.t = "arr" -> Len(v.a) > 0
      [] v.t = "obj" -> DOMAIN v.o # {}

(***************************************************************************)
(* JSON text: the encoder the backend applies and the decoder of           *)
(* response.json() / json.loads().                                         *)
(***************************************************************************)
Quote == "\""
Backslash == "\\"
Whitespace == {" "}
DigitSeq == <<"0", "1", "2", "3", "4", "5", "6", "7", "8", "9">>
DigitSet == {DigitSeq[i] : i \in 1..10}
DigitVal(c) == (CHOOSE i \in 1..10 : DigitSeq[i] = c) - 1

\* the text of a str between its quotes: a backslash before each quote and backslash
Escape(s) ==
    LET doubled == [k \in 1..(2 * Len(s)) |->
                        IF k % 2 = 1
                        THEN <<s[(k + 1) \div 2] \in {Quote, Backslash}, Backslash>>
                        ELSE <<TRUE, s[k \div 2]>>]
        kept == SelectSeq(doubled, LAMBDA c : c[1])
    IN  [k \in 1..Len(kept) |-> kept[k][2]]

RECURSIVE Digits(_)
Digits(n) == IF n < 10 THEN <<DigitSeq[n + 1]>> ELSE Digits(n \div 10) \o <<DigitSeq[(n % 10) + 1]>>

RECURSIVE SetToSeq(_)
SetToSeq(S) == IF S = {} THEN <<>> ELSE LET x == CHOOSE y \in S : TRUE IN <<x>> \o SetToSeq(S \ {x})

RECURSIVE Encode(_), EncodeElems(_), EncodeMembers(_, _)
Encode(v) ==
    CASE v.t = "null" -> <<"null">>
      [] v.t = "bool" -> IF v.b THEN <<"true">> ELSE <<"false">>
      [] v.t = "num" -> Digits(v.n)
      [] v.t = "str" -> <<Quote>> \o Escape(v.s) \o <<Quote>>
      [] v.t = "arr" -> <<"[">> \o EncodeElems(v.a) \o <<"]">>
      [] v.t = "obj" -> <<"{">> \o EncodeMembers(v.o, SetToSeq(DOMAIN v.o)) \o <<"}">>
EncodeElems(a) ==
    IF a = <<>> THEN <<>>
    ELSE Encode(Head(a)) \o (IF Tail(a) = <<>> THEN <<>> ELSE <<",", " ">> \o EncodeElems(Tail(a)))
EncodeMembers(o, ks) ==
    IF ks = <<>> THEN <<>>
    ELSE <<Quote>> \o Escape(Head(ks)) \o <<Quote, ":", " ">> \o Encode(o[Head(ks)])
         \o (IF Tail(ks) = <<>> THEN <<>> ELSE <<",", " ">> \o EncodeMembers(o, Tail(ks)))

\* a decoding step: the value and the position after it, or a JSONDecodeError
Fail == [ok |-> FALSE, val |-> None, next |-> 0]
Ok(v, n) == [ok |-> TRUE, val |-> v, next |-> n]

RECURSIVE SkipWs(_, _)
SkipWs(txt, i) == IF i <= Len(txt) /\ txt[i] \in Whitespace THEN SkipWs(txt, i + 1) ELSE i

\* the number of backslashes that end right before position p of a str starting at lo
BackslashRun(txt, lo, p) ==
    CHOOSE k \in 0..(p - lo) :
        /\ \A m \in 1..k : txt[p - m] = Backslash
        /\ k = p - lo \/ txt[p - k - 1] # Backslash

\* the least element of a set of positions
Least(S) == CHOOSE c \in S : \A c2 \in S : c <= c2

\* the symbols of txt[i..j-1] outside the positions of escapes, in order
Unescaped(txt, i, j, escapes) ==
    SelectSeq([k \in 1..(j - i) |-> <<(i + k - 1) \notin escapes, txt[i + k - 1]>>], LAMBDA c : c[1])

StrOf(kept) == PyStr([k \in 1..Len(kept) |-> kept[k][2]])

\* the str that ends at the quote of position j; a backslash that no backslash escapes
\* escapes the quote or the backslash after it
CharsUpTo(txt, i, j, escapes) ==
    IF \E q \in escapes : txt[q + 1] \notin {Quote, Backslash} THEN Fail
    ELSE Ok(StrOf(Unescaped(txt, i, j, escapes)), j + 1)

CharsClosedAt(txt, i, j) ==
    CharsUpTo(txt, i, j, {q \in i..(j - 1) : txt[q] = Backslash /\ BackslashRun(txt, i, q) % 2 = 0})

CharsAmong(txt, i, closing) ==
    IF closing = {} THEN Fail ELSE CharsClosedAt(txt, i, Least(closing))

\* a str whose opening quote is right before position i: up to the first quote that no
\* backslash escapes
ParseChars(txt, i) ==
    CharsAmong(txt, i, {j \in i..Len(txt) : txt[j] = Quote /\ BackslashRun(txt, i, j) % 2 = 0})

RECURSIVE ParseDigits(_, _, _)
ParseDigits(txt, i, acc) ==
    IF i <= Len(txt) /\ txt[i] \in DigitSet
    THEN ParseDigits(txt, i + 1, acc * 10 + DigitVal(txt[i]))
    ELSE Ok(PyNum(acc), i)

\* the decoder, one operator for each place of the text it stands at
RECURSIVE ParseValue(_, _), ParseElems(_, _, _), ParseMembers(_, _, _)

\* after an element or a member: a comma and the rest, or the closing bracket
ElemsSep(txt, k, acc) ==
    IF k > Len(txt) THEN Fail
    ELSE IF txt[k] = "," THEN ParseElems(txt, k + 1, acc)
    ELSE IF txt[k] = "]" THEN Ok(PyList(acc), k + 1)
    ELSE Fail
ElemsAfter(txt, r, acc) ==
    IF ~r.ok THEN Fail ELSE ElemsSep(txt, SkipWs(txt, r.next), Append(acc, r.val))
MembersSep(txt, k, acc) ==
    IF k > Len(txt) THEN Fail
    ELSE IF txt[k] = "," THEN ParseMembers(txt, k + 1, acc)
    ELSE IF txt[k] = "}" THEN Ok(PyDict(acc), k + 1)
    ELSE Fail
MemberAfter(txt, name, r, acc) ==
    IF ~r.ok THEN Fail ELSE MembersSep(txt, SkipWs(txt, r.next), Put(acc, name, r.val))
MemberValue(txt, name, c, acc) ==
    IF c > Len(txt) \/ txt[c] # ":" THEN Fail
    ELSE MemberAfter(txt, name, ParseValue(txt, c + 1), acc)
MemberColon(txt, key, acc) ==
    IF ~key.ok THEN Fail ELSE MemberValue(txt, key.val.s, SkipWs(txt, key.next), acc)
MemberKey(txt, i, acc) ==
    IF i > Len(txt) \/ txt[i] # Quote THEN Fail
    ELSE MemberColon(txt, ParseChars(txt, i + 1), acc)
ArrayAt(txt, j) ==
    IF j <= Len(txt) /\ txt[j] = "]" THEN Ok(PyList(<<>>), j + 1)
    ELSE ParseElems(txt, j, <<>>)
ObjectAt(txt, j) ==
    IF j <= Len(txt) /\ txt[j] = "}" THEN Ok(PyDict(EmptyDict), j + 1)
    ELSE ParseMembers(txt, j, EmptyDict)
ValueAt(txt, i) ==
    IF i > Len(txt) THEN Fail
    ELSE CASE txt[i] = "null" -> Ok(None, i + 1)
           [] txt[i] = "true" -> Ok(PyBool(TRUE), i + 1)
           [] txt[i] = "false" -> Ok(PyBool(FALSE), i + 1)
           [] txt[i] = "0" -> Ok(PyNum(0), i + 1)
           [] txt[i] \in DigitSet \ {"0"} -> ParseDigits(txt, i, 0)
           [] txt[i] = Quote -> ParseChars(txt, i + 1)
           [] txt[i] = "[" -> ArrayAt(txt, SkipWs(txt, i + 1))
           [] txt[i] = "{" -> ObjectAt(txt, SkipWs(txt, i + 1))
           [] OTHER -> Fail

ParseValue(txt, i) == ValueAt(txt, SkipWs(txt, i))
ParseElems(txt, i, acc) == ElemsAfter(txt, ParseValue(txt, i), acc)
ParseMembers(txt, i, acc) == MemberKey(txt, SkipWs(txt, i), acc)

\* the whole text is one value
WholeText(txt, r) == IF r.ok /\ SkipWs(txt, r.next) = Len(txt) + 1 THEN r ELSE Fail

\* json.loads(txt): the value, or a JSONDecodeError
json_loads(txt) == WholeText(txt, ParseValue(txt, 1))

(***************************************************************************)
(* Configuration and the session state (st.session_state).                 *)
(***************************************************************************)
VARIABLES
    API_ENDPOINT,         \* st.secrets "API_ENDPOINT"; "" when not configured
    authenticated,
    messages,
    session_id,
    context,
    custom_instructions,
    login_attempts,
    show_agent_activity,
    pending_prompt,       \* None while the attribute is unset
    run,                  \* the last run of the script: what started it, the requests
                          \* it posted, what it displayed and how it ended
    probe                 \* call_api applied to one object, bare and wrapped

vars == <<API_ENDPOINT, authenticated, messages, session_id, context,
          custom_instructions, login_attempts, show_agent_activity, pending_prompt, run, probe>>

\* bounds of the model
MaxMessages == 2
MaxLoginAttempts == 2

Endpoints == {"", "https://backend/api"}
\* line 17, st.secrets "USER_ACCESS_KEY" of the deployment
USER_ACCESS_KEY == "secret"
EnteredKeys == {"", "secret", "wrong"}
SessionIds == {"1762228800", "1762228801"}
InstructionTexts == {"", "be brief"}
ChatTexts == {<<>>, <<" ">>, <<"hi">>}

ContextKeys == <<"pipeline_design", "schema_design", "medallion_architecture",
                 "dlt_development", "performance_optimization", "custom">>

CONTEXTS ==
    [k \in {ContextKeys[i] : i \in 1..Len(ContextKeys)} |->
        CASE k = "pipeline_design" ->
               [examples |-> <<PyStr(<<"Create a daily ETL pipeline">>), PyStr(<<"Design a streaming pipeline">>)>>]
          [] k = "schema_design" ->
               [examples |-> <<PyStr(<<"Design a customer table">>), PyStr(<<"Create an orders schema">>)>>]
          [] k = "medallion_architecture" ->
               [examples |-> <<PyStr(<<"Design medallion for e-commerce">>), PyStr(<<"Create Bronze layer for IoT">>)>>]
          [] k = "dlt_development" ->
               [examples |-> <<PyStr(<<"Create DLT with expectations">>), PyStr(<<"Build streaming DLT">>)>>]
          [] k = "performance_optimization" ->
               [examples |-> <<PyStr(<<"Optimize slow Spark query">>), PyStr(<<"Recommend partitioning">>)>>]
          [] k = "custom" ->
               [examples |-> <<PyStr(<<"Ask anything">>)>>]]

DefaultContext == "medallion_architecture"

\* the contexts the user of the model selects
SelectableContexts == {DefaultContext, "custom"}

\* ctx["examples"][:2]
Examples(ctx) == SubSeq(CONTEXTS[ctx].examples, 1, IF Len(CONTEXTS[ctx].examples) < 2 THEN Len(CONTEXTS[ctx].examples) ELSE 2)

(***************************************************************************)
(* The backend: what one requests.post may do.                             *)
(***************************************************************************)
Dict1(k1, v1) == PyDict(Put(EmptyDict, Key(k1), v1))
With(d, k, v) == PyDict(Put(d.o, Key(k), v))
Without(d, ks) == PyDict([x \in (DOMAIN d.o) \ {Key(k) : k \in ks} |-> d.o[x]])

ArchitectStep == With(Dict1("agent", PyStr(<<"Architect">>)), "status", PyStr(<<"completed">>))

RateLimited == With(Dict1("success", PyBool(FALSE)), "error", PyStr(<<"rate limited">>))
FailureNoError == Dict1("success", PyBool(FALSE))
SuccessMinimal == With(Dict1("success", PyBool(TRUE)), "response", PyStr(<<"ok">>))
SuccessFull ==
    With(With(With(With(With(SuccessMinimal,
        "agent_steps", PyList(<<ArchitectStep>>)),
        "intent", PyStr(<<"schema_design">>)),
        "intent_confidence", PyNum(1)),
        "rag_documents", PyList(<<PyStr(<<"doc1">>)>>)),
        "validation", Dict1("passed", PyBool(TRUE)))
SuccessNullConfidence == With(SuccessFull, "intent_confidence", None)
StatsReply == With(Dict1("success", PyBool(TRUE)), "total_documents", PyNum(3))

OptionalFields == {"agent_steps", "intent", "intent_confidence", "rag_documents", "validation"}

Raise == [kind |-> "raise", text |-> <<>>]
Body(txt) == [kind |-> "body", text |-> txt]

\* the replies the backend of the model gives to a chat request
ChatOutcomes ==
    {Raise,
     Body(<<"<html>">>),
     Body(Encode(None)),
     Body(Encode(PyList(<<PyNum(1)>>))),
     Body(Encode(PyStr(Encode(PyList(<<PyNum(1)>>))))),
     Body(Encode(RateLimited)),
     Body(Encode(SuccessMinimal)),
     Body(Encode(SuccessFull)),
     Body(Encode(PyStr(Encode(SuccessFull)))),
     Body(Encode(PyStr(Encode(PyStr(Encode(RateLimited)))))),
     Body(Encode(SuccessNullConfidence))}

\* the replies to add_document and get_stats
OtherOutcomes ==
    {Raise, Body(Encode(StatsReply)), Body(Encode(FailureNoError)), Body(Encode(PyList(<<PyNum(1)>>)))}

(***************************************************************************)
(* API functions.                                                          *)
(***************************************************************************)
NotConfiguredError == PyStr(<<"API not configured.">>)
ExceptionError == PyStr(<<"Error">>)

\* line 306 without the isinstance test: the body is returned as parsed
UnwrapNever(r1) == r1

\* line 306: json.loads(result) if isinstance(result, str) else result
Unwrap(r1) ==
    IF ~r1.ok THEN Fail
    ELSE IF isinstance_str(r1.val) THEN json_loads(r1.val.s)
    ELSE r1

\* lines 305-306: result = response.json(), then line 306
decode(txt) == Unwrap(json_loads(txt))

\* the objects call_api is probed with, bare and wrapped as a JSON string
ProbeValues ==
    {None, PyBool(TRUE), PyBool(FALSE), PyNum(0), PyNum(12), PyStr(<<>>), PyStr(<<"ok", Quote>>),
     PyStr(<<Backslash, Quote, "{">>), PyList(<<PyNum(1), PyStr(<<Quote>>)>>),
     Dict1("passed", PyBool(TRUE))}
ProbeKeys == {<<"success">>, <<"a", Quote, Backslash>>}
ProbeObjects == {PyDict(o) : o \in UNION {[ks -> ProbeValues] : ks \in SUBSET ProbeKeys}}
Wrapped(txt) == Encode(PyStr(txt))
ProbeTexts ==
    UNION {{Encode(obj), Wrapped(Encode(obj)), Wrapped(Wrapped(Encode(obj)))} : obj \in ProbeObjects}

\* decode applied once to every body of the model
BodyTexts == {o.text : o \in (ChatOutcomes \cup OtherOutcomes) \ {Raise}} \cup ProbeTexts
Decoded == [txt \in BodyTexts |-> decode(txt)]

\* call_api without lines 291-293: the request is posted to whatever API_ENDPOINT holds
call_api_unguarded(operation, data, outcome) ==
    IF outcome.kind = "raise"
    THEN [result |-> None, posted |-> <<data @@ [operation |-> operation]>>,
          errors |-> <<ExceptionError>>]
    ELSE IF Decoded[outcome.text].ok
    THEN [result |-> Decoded[outcome.text].val, posted |-> <<data @@ [operation |-> operation]>>,
          errors |-> <<>>]
    ELSE [result |-> None, posted |-> <<data @@ [operation |-> operation]>>,
          errors |-> <<ExceptionError>>]

\* returns the result, the requests posted and the st.error messages shown
call_api(operation, data, outcome) ==
    IF API_ENDPOINT = ""
    THEN [result |-> None, posted |-> <<>>, errors |-> <<NotConfiguredError>>]
    ELSE LET request == data @@ [operation |-> operation] IN
         IF outcome.kind = "raise"
         THEN [result |-> None, posted |-> <<request>>, errors |-> <<ExceptionError>>]
         ELSE LET r == Decoded[outcome.text] IN
              IF r.ok
              THEN [result |-> r.val, posted |-> <<request>>, errors |-> <<>>]
              ELSE [result |-> None, posted |-> <<request>>, errors |-> <<ExceptionError>>]

\* a call that is repeated once when it has failed
Retried(call) ==
    IF call.result = None
    THEN [call EXCEPT !.posted = @ \o @, !.errors = @ \o @]
    ELSE call

\* send_chat with one retry
send_chat_retrying(message, sid, ctx, instr, outcome) ==
    Retried(call_api("chat", [message |-> message, session_id |-> sid, context |-> ctx,
                              custom_instructions |-> instr], outcome))

send_chat(message, sid, ctx, instr, outcome) ==
    call_api("chat", [message |-> message, session_id |-> sid, context |-> ctx,
                      custom_instructions |-> instr], outcome)

upload_doc(content, name, ctx, outcome) ==
    call_api("add_document", [content |-> content, document_name |-> name, context |-> ctx], outcome)

get_docs(outcome) == call_api("get_documents", <<>>, outcome)

get_stats(outcome) == call_api("get_stats", <<>>, outcome)

(***************************************************************************)
(* Rendering.  Each operator gives the exception the code raises, or       *)
(* "none".                                                                 *)
(***************************************************************************)
\* details[:4]
Sliceable(v) == v.t \in {"str", "arr"}
\* f"{conf:.0%}"
Formattable(v) == v.t \in {"num", "bool"}
\* len(docs)
Sized(v) == v.t \in {"str", "arr", "obj"}

\* completed / total_steps of a list of dict steps
Completed(steps) ==
    Cardinality({i \in 1..Len(steps) : Get(steps[i], "status", None) = PyStr(<<"completed">>)})

render_agent_activity(agent_steps) ==
    IF ~Truthy(agent_steps) THEN "none"
    ELSE IF agent_steps.t \in {"num", "bool"} THEN "TypeError"
    ELSE IF agent_steps.t \in {"str", "obj"} THEN "AttributeError"
    ELSE IF \E i \in 1..Len(agent_steps.a) : ~isinstance_dict(agent_steps.a[i]) THEN "AttributeError"
    ELSE IF \E i \in 1..Len(agent_steps.a) :
                ~Sliceable(Get(agent_steps.a[i], "details", PyList(<<>>))) THEN "TypeError"
    ELSE "none"

\* the four captions of the Summary expander, read from a dict
Summary(d) ==
    IF ~Formattable(Get(d, "intent_confidence", PyNum(0))) THEN "TypeError"
    ELSE IF ~Sized(Get(d, "rag_documents", PyList(<<>>))) THEN "TypeError"
    ELSE IF ~isinstance_dict(Get(d, "validation", PyDict(EmptyDict))) THEN "AttributeError"
    ELSE "none"

\* lines 511-538: one message of the chat history
RenderMessage(msg, show) ==
    IF msg.role = "assistant"
    THEN LET e == IF show /\ Truthy(msg.agent_steps)
                  THEN render_agent_activity(msg.agent_steps) ELSE "none" IN
         IF e # "none" THEN e
         ELSE IF Truthy(msg.metadata) THEN Summary(msg.metadata)
         ELSE "none"
    ELSE "none"

FirstRaising(msgs, show, raising) ==
    IF raising = {} THEN "none" ELSE RenderMessage(msgs[Least(raising)], show)

\* lines 510-538: the exception of the first message that raises one
RenderHistory(msgs, show) ==
    FirstRaising(msgs, show, {i \in 1..Len(msgs) : RenderMessage(msgs[i], show) # "none"})

(***************************************************************************)
(* One run of the script.                                                  *)
(***************************************************************************)
\* a run that has shown the login page only
NewRun ==
    [reached |-> "login", prompt |-> None, sent |-> FALSE, result |-> None,
     requests |-> <<>>, errors |-> <<>>, panel |-> "none", uncaught |-> "none"]

UserTurn(prompt) == [role |-> "user", content |-> prompt]

\* lines 611-621
AssistantTurn(result) ==
    [role |-> "assistant",
     content |-> Get(result, "response", PyStr(<<>>)),
     agent_steps |-> Get(result, "agent_steps", PyList(<<>>)),
     metadata |->
        With(With(With(Dict1("intent", Get(result, "intent", None)),
            "intent_confidence", Get(result, "intent_confidence", None)),
            "validation", Get(result, "validation", None)),
            "rag_documents", Get(result, "rag_documents", PyList(<<>>)))]

\* lines 622-625: the error shown for a result that is not a success
ChatError(result) ==
    IF Truthy(result) THEN Get(result, "error", PyStr(<<"Unknown error">>))
    ELSE PyStr(<<"Connection failed">>)

FirstRaised(e1, e2) == IF e1 # "none" THEN e1 ELSE e2

\* lines 610-621: the turn is saved unless the rendering before it has raised e
Rendered(msgs1, result, e, r2) ==
    IF e # "none" THEN [messages |-> msgs1, run |-> [r2 EXCEPT !.uncaught = e]]
    ELSE [messages |-> Append(msgs1, AssistantTurn(result)), run |-> r2]

\* lines 582-621; shown: the activity panel is rendered (line 586)
ShowSuccess(msgs1, result, shown, r1) ==
    Rendered(msgs1, result,
             FirstRaised(IF shown THEN render_agent_activity(Get(result, "agent_steps", PyList(<<>>)))
                         ELSE "none",
                         Summary(result)),
             [r1 EXCEPT !.panel = IF shown THEN "steps" ELSE "empty"])

\* lines 581-625
ShowResult(msgs1, show, result, r1) ==
    IF Truthy(result) /\ ~isinstance_dict(result)
    THEN [messages |-> msgs1, run |-> [r1 EXCEPT !.uncaught = "AttributeError"]]
    ELSE IF Truthy(result) /\ Truthy(Get(result, "success", None))
    THEN ShowSuccess(msgs1, result, show /\ Truthy(Get(result, "agent_steps", PyList(<<>>))), r1)
    ELSE [messages |-> msgs1,
          run |-> [r1 EXCEPT !.panel = "empty", !.errors = Append(@, ChatError(result))]]

\* lines 556-625, call: what send_chat has returned
Consume(msgs1, prompt, show, call, r0) ==
    ShowResult(msgs1, show, call.result,
               [r0 EXCEPT !.prompt = prompt, !.sent = TRUE, !.result = call.result,
                          !.requests = @ \o call.posted, !.errors = @ \o call.errors,
                          !.panel = IF show THEN "placeholder" ELSE "empty"])

\* lines 548-625 with the history assigned, not appended to
ProcessPromptAssigning(msgs, prompt, show, sid, ctx, instr, outcome, r0) ==
    Consume(<<UserTurn(prompt)>>, prompt, show,
            send_chat(prompt, sid, ctx, instr, outcome), r0)

\* lines 548-625: process a new message
ProcessPrompt(msgs, prompt, show, sid, ctx, instr, outcome, r0) ==
    Consume(Append(msgs, UserTurn(prompt)), prompt, show,
            send_chat(prompt, sid, ctx, instr, outcome), r0)

WithPending(p, pend1) == [messages |-> p.messages, pending_prompt |-> pend1, run |-> p.run]

\* lines 547-625
NewMessage(msgs, prompt, pend1, show, sid, ctx, instr, outcome, r1) ==
    IF Truthy(prompt)
    THEN WithPending(ProcessPrompt(msgs, prompt, show, sid, ctx, instr, outcome, r1), pend1)
    ELSE [messages |-> msgs, pending_prompt |-> pend1, run |-> r1]

\* lines 540-625: the pending prompt, or else the chat input
AfterHistory(e, msgs, pend, show, sid, ctx, instr, chat_input, outcome, r0) ==
    IF e # "none"
    THEN [messages |-> msgs, pending_prompt |-> pend,
          run |-> [r0 EXCEPT !.reached = "history", !.uncaught = e]]
    ELSE IF Truthy(pend)
    THEN NewMessage(msgs, pend, None, show, sid, ctx, instr, outcome,
                    [r0 EXCEPT !.reached = "pending"])
    ELSE NewMessage(msgs, chat_input, pend, show, sid, ctx, instr, outcome,
                    [r0 EXCEPT !.reached = "chat_input"])

\* lines 482-625: the chat history, then the new message
MainContent(msgs, pend, show, sid, ctx, instr, chat_input, outcome, r0) ==
    AfterHistory(RenderHistory(msgs, show), msgs, pend, show, sid, ctx, instr,
                 chat_input, outcome, r0)

\* lines 393-625, side: the run as the sidebar has left it
show_main_app(msgs, pend, show, sid, ctx, instr, chat_input, outcome, side) ==
    IF side.uncaught # "none"
    THEN [messages |-> msgs, pending_prompt |-> pend, run |-> side]
    ELSE MainContent(msgs, pend, show, sid, ctx, instr, chat_input, outcome, side)

\* the widgets the last run has put on the page
SidebarShown == authenticated /\ run.reached # "login"
StatsShown == SidebarShown /\ run.reached # "upload"
ClearShown == StatsShown /\ run.reached # "stats"
ChatInputShown == SidebarShown /\ run.reached = "chat_input"

\* the replies that matter to the rest of a run that takes no chat input
PendingOutcomes == IF Truthy(pending_prompt) THEN ChatOutcomes ELSE {Raise}

\* the end of a run of show_main_app
Finish(ctx, instr, show, m) ==
    /\ Len(m.messages) <= MaxMessages
    /\ messages' = m.messages
    /\ pending_prompt' = m.pending_prompt
    /\ run' = m.run
    /\ context' = ctx
    /\ custom_instructions' = instr
    /\ show_agent_activity' = show
    /\ UNCHANGED <<API_ENDPOINT, authenticated, session_id, login_attempts, probe>>

(***************************************************************************)
(* Authentication.                                                         *)
(***************************************************************************)
verify_access_key(entered_key) ==
    IF USER_ACCESS_KEY = "" THEN TRUE ELSE entered_key = USER_ACCESS_KEY

\* lines 234-238: the key is accepted, st.rerun() runs show_main_app
Unlock(m) ==
    /\ Len(m.messages) <= MaxMessages
    /\ authenticated' = TRUE
    /\ login_attempts' = 0
    /\ messages' = m.messages
    /\ pending_prompt' = m.pending_prompt
    /\ run' = m.run
    /\ UNCHANGED <<API_ENDPOINT, session_id, context, custom_instructions,
                   show_agent_activity, probe>>

\* lines 239-245
Refuse ==
    /\ login_attempts < MaxLoginAttempts
    /\ login_attempts' = login_attempts + 1
    /\ run' = [NewRun EXCEPT !.errors = <<PyStr(<<"Invalid key">>)>>]
    /\ UNCHANGED <<API_ENDPOINT, authenticated, messages, session_id, context,
                   custom_instructions, show_agent_activity, pending_prompt, probe>>

\* show_login_page, the form submitted with access_key
Login ==
    /\ ~authenticated
    /\ \E access_key \in EnteredKeys, o \in PendingOutcomes :
        IF access_key # "" /\ verify_access_key(access_key)
        THEN Unlock(show_main_app(messages, pending_prompt, show_agent_activity, session_id,
                                  context, custom_instructions, None, o,
                                  [NewRun EXCEPT !.reached = "sidebar"]))
        ELSE Refuse

(***************************************************************************)
(* show_main_app, one action for each widget that starts a run.            *)
(***************************************************************************)
\* the run when the sidebar is through and nothing in it has raised
Sidebar == [NewRun EXCEPT !.reached = "sidebar"]

\* lines 402-405 with the whole session state dropped: the next run draws a new session_id
LogoutNewSession ==
    /\ SidebarShown
    /\ authenticated' = FALSE
    /\ messages' = <<>>
    /\ run' = NewRun
    /\ session_id' \in SessionIds \ {session_id}
    /\ UNCHANGED <<API_ENDPOINT, context, custom_instructions,
                   login_attempts, show_agent_activity, pending_prompt, probe>>

\* lines 402-405
Logout ==
    /\ SidebarShown
    /\ authenticated' = FALSE
    /\ messages' = <<>>
    /\ run' = NewRun
    /\ UNCHANGED <<API_ENDPOINT, session_id, context, custom_instructions,
                   login_attempts, show_agent_activity, pending_prompt, probe>>

\* lines 412-419
SelectContext ==
    /\ SidebarShown
    /\ \E selected \in SelectableContexts, o \in PendingOutcomes :
        Finish(selected, custom_instructions, show_agent_activity,
               show_main_app(messages, pending_prompt, show_agent_activity, session_id,
                             selected, custom_instructions, None, o, Sidebar))

\* lines 425-427
ClickExample ==
    /\ SidebarShown
    /\ \E i \in 1..Len(Examples(context)), o \in ChatOutcomes :
        Finish(context, custom_instructions, show_agent_activity,
               show_main_app(messages, Examples(context)[i], show_agent_activity, session_id,
                             context, custom_instructions, None, o, Sidebar))

\* lines 430-436
EditInstructions ==
    /\ SidebarShown
    /\ \E text \in InstructionTexts, o \in PendingOutcomes :
        Finish(context, text, show_agent_activity,
               show_main_app(messages, pending_prompt, show_agent_activity, session_id,
                             context, text, None, o, Sidebar))

\* lines 442-446
ToggleActivity ==
    /\ SidebarShown
    /\ \E o \in PendingOutcomes :
        Finish(context, custom_instructions, ~show_agent_activity,
               show_main_app(messages, pending_prompt, ~show_agent_activity, session_id,
                             context, custom_instructions, None, o, Sidebar))

\* lines 465-469, call: what upload_doc has returned
Uploaded(call) ==
    IF Truthy(call.result) /\ ~isinstance_dict(call.result)
    THEN [NewRun EXCEPT !.reached = "upload", !.requests = call.posted, !.errors = call.errors,
                        !.uncaught = "AttributeError"]
    ELSE IF Truthy(call.result) /\ Truthy(Get(call.result, "success", None))
    THEN [Sidebar EXCEPT !.requests = call.posted, !.errors = call.errors]
    ELSE [Sidebar EXCEPT !.requests = call.posted,
                         !.errors = Append(call.errors, PyStr(<<"Failed">>))]

\* lines 453-469
Upload ==
    /\ SidebarShown
    /\ \E doc_name \in {"", "my_doc"}, doc_content \in {"", "text"},
          doc_ctx \in SelectableContexts \ {"custom"},
          o1 \in OtherOutcomes, o2 \in PendingOutcomes :
        Finish(context, custom_instructions, show_agent_activity,
               show_main_app(messages, pending_prompt, show_agent_activity, session_id,
                             context, custom_instructions, None, o2,
                             IF doc_name # "" /\ doc_content # ""
                             THEN Uploaded(upload_doc(doc_content, doc_name, doc_ctx, o1))
                             ELSE Sidebar))

\* lines 474-476, call: what get_stats has returned
StatsShownFor(call) ==
    IF Truthy(call.result) /\ ~isinstance_dict(call.result)
    THEN [NewRun EXCEPT !.reached = "stats", !.requests = call.posted, !.errors = call.errors,
                        !.uncaught = "AttributeError"]
    ELSE [Sidebar EXCEPT !.requests = call.posted, !.errors = call.errors]

\* lines 473-476
Stats ==
    /\ StatsShown
    /\ \E o1 \in OtherOutcomes, o2 \in PendingOutcomes :
        Finish(context, custom_instructions, show_agent_activity,
               show_main_app(messages, pending_prompt, show_agent_activity, session_id,
                             context, custom_instructions, None, o2,
                             StatsShownFor(get_stats(o1))))

\* lines 478-480
Clear ==
    /\ ClearShown
    /\ \E o \in PendingOutcomes :
        Finish(context, custom_instructions, show_agent_activity,
               show_main_app(<<>>, pending_prompt, show_agent_activity, session_id,
                             context, custom_instructions, None, o, Sidebar))

\* line 545, a text submitted in the chat input
ChatInput ==
    /\ ChatInputShown
    /\ \E text \in ChatTexts, o \in ChatOutcomes :
        Finish(context, custom_instructions, show_agent_activity,
               show_main_app(messages, pending_prompt, show_agent_activity, session_id,
                             context, custom_instructions, PyStr(text), o, Sidebar))

\* a run that no modelled widget starts
Rerun ==
    /\ SidebarShown
    /\ \E o \in PendingOutcomes :
        Finish(context, custom_instructions, show_agent_activity,
               show_main_app(messages, pending_prompt, show_agent_activity, session_id,
                             context, custom_instructions, None, o, Sidebar))

NoProbe == [op |-> "none"]

\* lines 190-203, and the first run, which shows the login page
Init ==
    /\ API_ENDPOINT \in Endpoints
    /\ authenticated = FALSE
    /\ messages = <<>>
    /\ session_id \in SessionIds
    /\ context = DefaultContext
    /\ custom_instructions = ""
    /\ login_attempts = 0
    /\ show_agent_activity = TRUE
    /\ pending_prompt = None
    /\ run = NewRun
    /\ probe = NoProbe

Next ==
    \/ Login
    \/ Logout
    \/ SelectContext
    \/ ClickExample
    \/ EditInstructions
    \/ ToggleActivity
    \/ Upload
    \/ Stats
    \/ Clear
    \/ ChatInput
    \/ Rerun

Spec == Init /\ [][Next]_vars

(***************************************************************************)
(* call_api on its own: one of the four API functions applied to the body  *)
(* that is an object, to the body that is a JSON string holding the text   *)
(* of the object, and to the body that wraps that string once more.        *)
(***************************************************************************)
Operations == {"chat", "add_document", "get_documents", "get_stats"}

NotCalled == [done |-> FALSE]
Called(call) == [done |-> TRUE, call |-> call]

ApiCall(op, outcome) ==
    CASE op = "chat" -> send_chat(PyStr(<<"hi">>), session_id, context, custom_instructions, outcome)
      [] op = "add_document" -> upload_doc("text", "my_doc", "pipeline_design", outcome)
      [] op = "get_documents" -> get_docs(outcome)
      [] op = "get_stats" -> get_stats(outcome)

InitApi ==
    /\ API_ENDPOINT \in Endpoints
    /\ authenticated = FALSE
    /\ messages = <<>>
    /\ session_id \in SessionIds
    /\ context = DefaultContext
    /\ custom_instructions = ""
    /\ login_attempts = 0
    /\ show_agent_activity = TRUE
    /\ pending_prompt = None
    /\ run = NewRun
    /\ probe \in {[op |-> op, obj |-> obj, bare |-> NotCalled, wrapped |-> NotCalled,
                   twice |-> NotCalled] : op \in Operations, obj \in ProbeObjects}

AppUnchanged ==
    UNCHANGED <<API_ENDPOINT, authenticated, messages, session_id, context, custom_instructions,
                login_attempts, show_agent_activity, pending_prompt, run>>

CallBare ==
    /\ ~probe.bare.done
    /\ probe' = [probe EXCEPT !.bare = Called(ApiCall(probe.op, Body(Encode(probe.obj))))]
    /\ AppUnchanged

CallWrapped ==
    /\ ~probe.wrapped.done
    /\ probe' = [probe EXCEPT !.wrapped = Called(ApiCall(probe.op, Body(Wrapped(Encode(probe.obj)))))]
    /\ AppUnchanged

CallWrappedTwice ==
    /\ ~probe.twice.done
    /\ probe' = [probe EXCEPT
                    !.twice = Called(ApiCall(probe.op, Body(Wrapped(Wrapped(Encode(probe.obj))))))]
    /\ AppUnchanged

NextApi ==
    \/ CallBare
    \/ CallWrapped
    \/ CallWrappedTwice

SpecApi == InitApi /\ [][NextApi]_vars

(***************************************************************************)
(* The claims.                                                             *)
(***************************************************************************)
IsPrefix(a, b) == Len(a) <= Len(b) /\ SubSeq(b, 1, Len(a)) = a

ChatRequests(reqs) == SelectSeq(reqs, LAMBDA q : q.operation = "chat")

\* a reply {success: false, error: E}
FailureReply(r) ==
    /\ isinstance_dict(r)
    /\ Key("success") \in DOMAIN r.o
    /\ r.o[Key("success")] = PyBool(FALSE)
    /\ Key("error") \in DOMAIN r.o

\* a reply {success: true, ...}
SuccessReply(r) ==
    /\ isinstance_dict(r)
    /\ Key("success") \in DOMAIN r.o
    /\ r.o[Key("success")] = PyBool(TRUE)

IsErrorTurn(m, e) ==
    /\ m.role = "assistant"
    /\ m.content = e
    /\ "agent_steps" \in DOMAIN m
    /\ m.agent_steps = PyList(<<>>)

\* the history of the step grows from pre by the user turn of the run and one more turn
GrewFrom(pre) ==
    /\ Len(messages') = Len(pre) + 2
    /\ IsPrefix(pre, messages')
    /\ messages'[Len(pre) + 1] = UserTurn(run'.prompt)

\* C1: when the backend answers a chat submission with success=false and an error E, the
\* history afterwards holds, after the user turn, exactly one new assistant error turn
\* whose content is E and whose step list is empty.
C1_ErrorTurnSaved ==
    [][(run'.sent /\ FailureReply(run'.result))
        => \E pre \in {messages, <<>>} :
                /\ GrewFrom(pre)
                /\ IsErrorTurn(messages'[Len(pre) + 2], run'.result.o[Key("error")])]_vars

SavedAs(m, result) ==
    /\ m.role = "assistant"
    /\ m.content = Get(result, "response", PyStr(<<>>))
    /\ m.agent_steps = Get(result, "agent_steps", PyList(<<>>))
    /\ Get(m.metadata, "intent", None) = Get(result, "intent", None)
    /\ Get(m.metadata, "intent_confidence", None) = Get(result, "intent_confidence", None)

\* C2: when the backend answers a chat submission with success=true, the history grows by
\* exactly two entries, the user turn with the submitted text and then one assistant turn
\* whose content is the returned response, whose steps are the whole returned agent_steps
\* and whose metadata carries the returned intent and intent_confidence.
C2_SuccessTurnSaved ==
    [][(run'.sent /\ SuccessReply(run'.result))
        => \E pre \in {messages, <<>>} :
                /\ GrewFrom(pre)
                /\ SavedAs(messages'[Len(pre) + 2], run'.result)]_vars

\* the successful replies in which a subset of the optional fields is absent
OptionalResults == {Without(SuccessFull, absent) : absent \in SUBSET OptionalFields}

FromOptionalResults(msgs) ==
    \A i \in 1..Len(msgs) :
        msgs[i].role = "assistant" => \E r \in OptionalResults : msgs[i] = AssistantTurn(r)

\* C3: for a successful reply in which any subset of the optional fields is absent,
\* neither the live rendering of the turn nor a later rendering of it from the saved
\* history raises an error.
C3_RenderingNeverFails ==
    /\ (run.sent /\ run.result \in OptionalResults) => run.uncaught = "none"
    /\ (run.reached = "history" /\ FromOptionalResults(messages)) => run.uncaught = "none"

\* C4: whatever the outbound call of a submission does, short of a successful reply, the
\* run ends in a displayed error and no exception escapes.
C4_FailureHandled ==
    (run.sent /\ ~(isinstance_dict(run.result) /\ Truthy(Get(run.result, "success", None))))
        => (run.uncaught = "none" /\ run.errors # <<>>)

\* C5: call_api returns for the body that is a JSON string holding the text of an object
\* what it returns for the body that is the object, and a body wrapped twice is unwrapped
\* once only: the result is the str that holds the text of the object.
C5_UnwrapOnce ==
    /\ (probe.bare.done /\ probe.wrapped.done) => probe.wrapped.call = probe.bare.call
    /\ (probe.twice.done /\ API_ENDPOINT # "")
            => probe.twice.call.result = PyStr(Encode(probe.obj))

C5_Witness ==
    /\ API_ENDPOINT # ""
    /\ probe.bare.done /\ probe.wrapped.done /\ probe.twice.done
    /\ probe.bare.call.result = probe.obj
    /\ DOMAIN probe.obj.o = ProbeKeys
    /\ probe.obj.o[<<"success">>] = PyStr(<<Backslash, Quote, "{">>)

\* C6: with no endpoint configured, each of the four API functions returns the failure
\* of the unconfigured API and posts no request.
C6_NotConfigured ==
    \A c \in {probe.bare, probe.wrapped, probe.twice} :
        (API_ENDPOINT = "" /\ c.done)
            => (c.call.result = None /\ c.call.posted = <<>> /\ c.call.errors = <<NotConfiguredError>>)

C6_Witness ==
    /\ API_ENDPOINT = ""
    /\ probe.op = "get_documents"
    /\ probe.bare.done /\ probe.wrapped.done /\ probe.twice.done

IsBlank(txt) == \A i \in 1..Len(txt) : txt[i] \in Whitespace

\* C7: a submission whose text is empty or only whitespace is a no-op: no user turn is
\* appended and no call is made, be the text from the chat input or from pending_prompt.
C7_BlankRejected == run.sent => ~IsBlank(run.prompt.s)

\* C8: the history before a step is a prefix of the history after it unless the step is
\* the explicit clear action.
C8_PrefixUnlessClear == [][Clear \/ IsPrefix(messages, messages')]_vars

\* C8, amended: ... unless the step is the explicit clear action or a logout.
C8_PrefixUnlessClearOrLogout == [][Clear \/ Logout \/ IsPrefix(messages, messages')]_vars

C8_Witness ==
    /\ Len(messages) = 2
    /\ messages[1].role = "user" /\ messages[2].role = "user"
    /\ run.sent

\* C9: a run posts one chat request if it has accepted a submission, and none otherwise;
\* a failed call is not repeated.  (With no endpoint configured the one call of
\* send_chat fails before it posts.)
C9_OneCallPerSubmission ==
    /\ Len(ChatRequests(run.requests)) = (IF run.sent /\ API_ENDPOINT # "" THEN 1 ELSE 0)
    /\ \A i \in 1..Len(run.requests) :
            run.requests[i].operation = "chat" => run.requests[i].message = run.prompt

C9_Witness ==
    /\ run.sent
    /\ run.result = None
    /\ Len(ChatRequests(run.requests)) = 1
    /\ ExceptionError \in {run.errors[i] : i \in 1..Len(run.errors)}

\* C10: the session identifier never changes, and every chat request carries it.
C10_SessionIdStable ==
    [][/\ session_id' = session_id
       /\ \A i \in 1..Len(run'.requests) :
            run'.requests[i].operation = "chat" => run'.requests[i].session_id = session_id]_vars

C10_Witness ==
    /\ Len(ChatRequests(run.requests)) = 1
    /\ ChatRequests(run.requests)[1].session_id = session_id
    /\ run.reached = "pending"
    /\ messages = <<UserTurn(run.prompt)>>

\* lines 561-575: the step of the "Processing..." placeholder
PlaceholderStep ==
    With(With(Dict1("agent", PyStr(<<"Intent Classifier">>)),
        "action", PyStr(<<"Analyzing your request...">>)),
        "status", PyStr(<<"running">>))

\* line 581: the result takes the success branch
Succeeded(r) == isinstance_dict(r) /\ Truthy(Get(r, "success", None))

HasPlaceholder(m) ==
    /\ "agent_steps" \in DOMAIN m
    /\ m.agent_steps.t = "arr"
    /\ \E i \in 1..Len(m.agent_steps.a) : m.agent_steps.a[i] = PlaceholderStep

\* C11: once the outbound call of a submission has returned the placeholder is gone: the
\* panel holds the returned steps when the call succeeded, the activity display is on and
\* the step list is not empty, and is empty in every other outcome; and no entry of the
\* saved history holds the placeholder step.
C11_PlaceholderGone ==
    /\ run.sent
        => run.panel = (IF /\ Succeeded(run.result)
                           /\ show_agent_activity
                           /\ Truthy(Get(run.result, "agent_steps", PyList(<<>>)))
                        THEN "steps" ELSE "empty")
    /\ \A i \in 1..Len(messages) : ~HasPlaceholder(messages[i])

\* the texts of the example buttons on the page
ExampleTexts == {Examples(context)[i] : i \in 1..Len(Examples(context))}

\* C12: a click on an example button submits that example's text in the run it starts,
\* with pending_prompt reset to None, and a run that neither an example click nor a chat
\* input starts appends no turn and makes no call.
C12_OneSubmissionPerClick ==
    [][/\ ClickExample
            => (run'.sent /\ run'.prompt \in ExampleTexts /\ pending_prompt' = None)
       /\ (~ClickExample /\ ~ChatInput)
            => (~run'.sent /\ ChatRequests(run'.requests) = <<>>
                    /\ Len(messages') <= Len(messages))]_vars
====
